---- MODULE Spec2Model ----
(***************************************************************************)
(* Remote path browser of rsync-gui.py: RemoteBrowserDialog (the SFTP      *)
(* browsing dialog) and RsyncGUI.pick_remote_path (its caller, which owns  *)
(* the path field the result is written to).                               *)
(*                                                                         *)
(* A path, an entry name and a field text are Python strings; they are     *)
(* modelled as sequences of one-character strings so that join, dirname,   *)
(* strip, split and sorted are computed character by character as the      *)
(* library computes them.                                                  *)
(***************************************************************************)
EXTENDS Naturals, Sequences, FiniteSets, TLC

VARIABLES
    field,        \* text of the path field handed to pick_remote_path
    dlg,          \* "None" | "Browsing" | "Selected" | "Cancelled"
    currentPath,  \* RemoteBrowserDialog.current_path
    listing,      \* items of RemoteBrowserDialog.fileList, in order
    crumbs,       \* jump targets of the breadcrumb buttons, in order
    selectedPath, \* RemoteBrowserDialog.selectedPath (NoPath: None)
    client,       \* RemoteBrowserDialog.client: "none" | "open" | "closed"
    sftp,         \* RemoteBrowserDialog.sftp:   "none" | "open" | "closed"
    cwd,          \* working directory held by the SFTP client (NoPath: unset)
    uncaught,     \* an exception left pick_remote_path uncaught (PyQt ends
                  \* the process on an exception that leaves a slot)
    warned,       \* the "Missing Info" warning box was the last thing shown
    opened,       \* number of browse invocations that built a dialog so far
    liveOld,      \* transports of earlier invocations that were never closed
    lastAct,      \* history: the handler that ran last
    arg,          \* history: its argument (item text, jump target)
    fromPath,     \* history: current_path before the handler ran
    fromListing,  \* history: the listing before the handler ran
    attempted,    \* history: path the last load_directory was issued with
    listOk,       \* history: "none" | "ok" | "fail", outcome of that call
    lastOkPath,   \* history: path of the last load_directory that succeeded
    startPath,    \* history: start_path the dialog was constructed with
    homeQueries,  \* history: number of "echo $HOME" round trips this session
    firstList,    \* history: path of the first load_directory this session
    tildeListed,  \* history: some load_directory ran with current_path "~"
    result,       \* history: what pick_remote_path received from the dialog
    fieldBefore,  \* history: the field text when the browse was requested
    credsGiven,   \* history: the handler that ran last was pick_remote_path
                  \* and read a host, a user and a key that are not blank
    form,         \* RsyncGUI: the text fields and check boxes of the form
    commandPreview, \* RsyncGUI.commandPreview: the text shown
    edits         \* number of form edits made so far

vars == <<field, dlg, currentPath, listing, crumbs, selectedPath, client, sftp,
          cwd, uncaught, warned, opened, liveOld, lastAct, arg, fromPath,
          fromListing, attempted, listOk, lastOkPath, startPath, homeQueries,
          firstList, tildeListed, result, fieldBefore, credsGiven, form,
          commandPreview, edits>>

\* The form of the main window outside the browser.
formVars == <<form, commandPreview, edits>>

\* The browser, its caller and the history of both.
browserVars ==
    <<field, dlg, currentPath, listing, crumbs, selectedPath, client, sftp,
      cwd, uncaught, warned, opened, liveOld, lastAct, arg, fromPath,
      fromListing, attempted, listOk, lastOkPath, startPath, homeQueries,
      firstList, tildeListed, result, fieldBefore, credsGiven>>

\* ------------------------------------------------------------------ bounds

\* Browse invocations that construct a dialog in one run of the model.
MaxSessions == 2

\* Edits of the form in one run of the model.
MaxEdits == 3

\* ------------------------------------------------------------ Python strings

\* None, for the optional paths.
NoPath == <<"<None>">>

Empty == <<>>

Slash == <<"/">>

Tilde == <<"~">>

\* Code points of the characters that occur, for string comparison.
Ord(c) ==
    CASE c = " " -> 32
      [] c = "!" -> 33
      [] c = "/" -> 47
      [] c = "b" -> 98
      [] c = "d" -> 100
      [] c = "f" -> 102
      [] c = "g" -> 103
      [] c = "h" -> 104
      [] c = "x" -> 120
      [] c = "~" -> 126
      [] OTHER -> 0

StartsWithSlash(p) == Len(p) > 0 /\ p[1] = "/"

EndsWithSlash(p) == Len(p) > 0 /\ p[Len(p)] = "/"

\* str.rstrip(ch)
RECURSIVE RStripCh(_, _)
RStripCh(p, ch) ==
    IF Len(p) > 0 /\ p[Len(p)] = ch THEN RStripCh(SubSeq(p, 1, Len(p) - 1), ch)
    ELSE p

\* str.lstrip(ch)
RECURSIVE LStripCh(_, _)
LStripCh(p, ch) ==
    IF Len(p) > 0 /\ p[1] = ch THEN LStripCh(Tail(p), ch)
    ELSE p

\* str.strip(ch)
StripCh(p, ch) == LStripCh(RStripCh(p, ch), ch)

\* str.strip(): whitespace off both ends
PyStrip(t) == StripCh(t, " ")

\* str.split("/"): the pieces between separators, empty pieces kept
RECURSIVE SplitSlash(_)
SplitSlash(p) ==
    IF \E i \in 1..Len(p) : p[i] = "/"
    THEN LET i == CHOOSE k \in 1..Len(p) :
                      p[k] = "/" /\ \A j \in 1..(k - 1) : p[j] # "/"
         IN  <<SubSeq(p, 1, i - 1)>> \o SplitSlash(SubSeq(p, i + 1, Len(p)))
    ELSE <<p>>

\* str.rfind("/") + 1
RFindSlash1(p) ==
    IF \E i \in 1..Len(p) : p[i] = "/"
    THEN CHOOSE k \in 1..Len(p) :
             p[k] = "/" /\ \A j \in (k + 1)..Len(p) : p[j] # "/"
    ELSE 0

AllSlashes(p) == \A i \in 1..Len(p) : p[i] = "/"

\* Faulty variant of OsPathJoin: the two strings glued with a separator,
\* whatever the first ends with.
OsPathJoin_Concat(a, b) == a \o Slash \o b

\* posixpath.join(a, b)
OsPathJoin(a, b) ==
    IF StartsWithSlash(b) THEN b
    ELSE IF a = Empty \/ EndsWithSlash(a) THEN a \o b
    ELSE a \o Slash \o b

\* posixpath.dirname(p)
OsPathDirname(p) ==
    LET head == SubSeq(p, 1, RFindSlash1(p))
    IN  IF head # Empty /\ ~AllSlashes(head) THEN RStripCh(head, "/") ELSE head

\* a < b for Python strings
RECURSIVE StrLess(_, _)
StrLess(a, b) ==
    IF b = Empty THEN FALSE
    ELSE IF a = Empty THEN TRUE
    ELSE IF a[1] # b[1] THEN Ord(a[1]) < Ord(b[1])
    ELSE StrLess(Tail(a), Tail(b))

\* insertion of one string into a sorted list
RECURSIVE InsertSorted(_, _)
InsertSorted(x, s) ==
    IF s = <<>> THEN <<x>>
    ELSE IF StrLess(x, s[1]) THEN <<x>> \o s
    ELSE <<s[1]>> \o InsertSorted(x, Tail(s))

\* Faulty variant of PySorted: the items in the order received.
PySorted_Unsorted(s) == s

\* sorted(items)
RECURSIVE PySorted(_)
PySorted(s) ==
    IF s = <<>> THEN <<>> ELSE InsertSorted(s[1], PySorted(Tail(s)))

\* ------------------------------------------------------- the remote server

\* What "echo $HOME" prints on the server; the directory a relative SFTP path
\* is resolved against while the client holds no working directory.
Home == <<"/", "h">>

\* Answers the exec_command round trip of connect_ssh can read: the home
\* directory, or nothing (an account whose shell prints nothing).
HomeAnswers == {Home, Empty}

ServerDirs == {Slash, <<"/", "h">>, <<"/", "h", "/", "d">>}

ServerFiles == {<<"/", "b">>, <<"/", "h", "/", "f">>, <<"/", "h", "/", "d", "/", "g">>}

\* sftp.listdir(): the names directly under a directory, in the order the
\* server sends them (not sorted).
ServerListdir(dir) ==
    CASE dir = Slash -> <<<<"h">>, <<"b">>>>
      [] dir = <<"/", "h">> -> <<<<"f">>, <<"d">>>>
      [] dir = <<"/", "h", "/", "d">> -> <<<<"g">>>>
      [] OTHER -> <<>>

\* "/" followed by the non-empty pieces joined by "/"
RECURSIVE JoinPieces(_)
JoinPieces(parts) ==
    IF parts = <<>> THEN Empty
    ELSE IF parts[1] = Empty THEN JoinPieces(Tail(parts))
    ELSE Slash \o parts[1] \o JoinPieces(Tail(parts))

\* sftp.normalize(path) for an absolute path without "." or "..": the server's
\* canonical form
Normalize(p) == IF JoinPieces(SplitSlash(p)) = Empty THEN Slash
                ELSE JoinPieces(SplitSlash(p))

\* SFTPClient._adjust_cwd(path): the path sent to the server
AdjustCwd(wd, p) ==
    IF wd = NoPath THEN p
    ELSE IF StartsWithSlash(p) THEN p
    ELSE IF wd = Slash THEN wd \o p
    ELSE wd \o Slash \o p

\* The server's view of a path the client sends: relative paths start at the
\* login directory; the empty path names nothing.
ServerResolve(wd, p) ==
    LET sent == AdjustCwd(wd, p)
    IN  IF sent = Empty THEN NoPath
        ELSE IF StartsWithSlash(sent) THEN Normalize(sent)
        ELSE Normalize(Home \o Slash \o sent)

\* ------------------------------------------------------ RemoteBrowserDialog

\* Text of the item load_directory adds when the remote call raised.
ErrItem == <<"!">>

\* Outcomes of the remote calls of one load_directory: both succeed, chdir
\* raises, listdir raises.
ListIO == {"ok", "chdirFail", "listFail"}

\* Outcomes of the remote call of enter_directory: stat answers, stat raises.
StatIO == {"ok", "fail"}

\* Outcomes of connect_ssh: all three remote calls succeed, or connect,
\* exec_command or open_sftp raises.
ConnIO == {"ok", "connectFail", "execFail", "sftpFail"}

\* update_breadcrumbs: the loop over parts, path_so_far joined piece by piece
RECURSIVE CrumbLoop(_, _)
CrumbLoop(parts, pathSoFar) ==
    IF parts = <<>> THEN <<>>
    ELSE LET next == OsPathJoin(pathSoFar, parts[1])
         IN  <<next>> \o CrumbLoop(Tail(parts), next)

\* Faulty variant of UpdateBreadcrumbs: the path split without stripping its
\* separators first.
UpdateBreadcrumbs_NoStrip(cur) == CrumbLoop(SplitSlash(cur), Slash)

\* update_breadcrumbs: the jump target of every button, in layout order
UpdateBreadcrumbs(cur) == CrumbLoop(SplitSlash(StripCh(cur, "/")), Slash)

\* Faulty variant of LoadDirectory: a failed remote call leaves the list empty.
LoadDirectory_Silent(path, wd, io) ==
    LET dir == ServerResolve(wd, path)
    IN  IF io = "ok" /\ dir \in ServerDirs
        THEN [listing |-> PySorted(ServerListdir(dir)), cwd |-> dir, ok |-> TRUE]
        ELSE [listing |-> <<>>, cwd |-> wd, ok |-> FALSE]

\* load_directory: the list contents and the SFTP working directory after the
\* call, and whether the try block ran to its end
LoadDirectory(path, wd, io) ==
    LET dir == ServerResolve(wd, path)
        chdirOk == io # "chdirFail" /\ dir \in ServerDirs
    IN  IF ~chdirOk THEN [listing |-> <<ErrItem>>, cwd |-> wd, ok |-> FALSE]
        ELSE IF io = "listFail"
             THEN [listing |-> <<ErrItem>>, cwd |-> dir, ok |-> FALSE]
        ELSE [listing |-> PySorted(ServerListdir(dir)), cwd |-> dir, ok |-> TRUE]

\* enter_directory: what sftp.stat(full_path) and S_ISDIR give
StatKind(full, wd, io) ==
    LET target == ServerResolve(wd, full)
    IN  IF io = "fail" THEN "error"
        ELSE IF target \in ServerDirs THEN "dir"
        ELSE IF target \in ServerFiles THEN "file"
        ELSE "error"

\* go_up_directory: parent
GoUpParent(cur) == OsPathDirname(RStripCh(cur, "/"))

\* Faulty variant of GoUpMoves: the emptiness test of parent left out.
GoUpMoves_NoEmptyTest(cur) == GoUpParent(cur) # cur

\* go_up_directory: the guard of the navigation
GoUpMoves(cur) == GoUpParent(cur) # Empty /\ GoUpParent(cur) # cur

\* Faulty variant of GetSelectedPath: the directory shown, whatever was
\* selected.
GetSelectedPath_CurrentOnly(sel, cur) == cur

\* Faulty variant of GetSelectedPath: no fallback to current_path.
GetSelectedPath_NoFallback(sel, cur) == sel

\* get_selected_path
GetSelectedPath(sel, cur) == IF sel # NoPath /\ sel # Empty THEN sel ELSE cur

\* Faulty variant of ResolveStart: the shorthand is kept as it is.
ResolveStart_Kept(start, answer) == start

\* connect_ssh: current_path after the "~" resolution
ResolveStart(start, answer) == IF start = Tilde THEN PyStrip(answer) ELSE start

\* connect_ssh: number of "echo $HOME" round trips
HomeLookups(start) == IF start = Tilde THEN 1 ELSE 0

\* closeEvent: the handle after "if h: h.close()"
CloseHandle(h) == IF h = "none" THEN "none" ELSE "closed"

\* QDialog.accept / QDialog.reject as called by the dialog: the dialog is
\* hidden and exec() returns; closeEvent is not run, so the handles stay.
DoneHandle(h) == h

\* ----------------------------------------------------- RsyncGUI (the caller)

\* pick_remote_path: start_path
StartPathOf(fld) == IF PyStrip(fld) = Empty THEN Tilde ELSE PyStrip(fld)

\* Faulty variant of MissingInfo: the texts are not trimmed.
MissingInfo_NoTrim(host, user, key) ==
    host = Empty \/ user = Empty \/ key = Empty

\* pick_remote_path: the missing-credentials guard
MissingInfo(host, user, key) ==
    PyStrip(host) = Empty \/ PyStrip(user) = Empty \/ PyStrip(key) = Empty

\* Faulty variant of FieldAfterExec: the dialog's result code is ignored.
FieldAfterExec_Always(accepted, sel, cur, fld) ==
    IF GetSelectedPath(sel, cur) # Empty THEN GetSelectedPath(sel, cur) ELSE fld

\* pick_remote_path after dialog.exec() returned: the field text
FieldAfterExec(accepted, sel, cur, fld) ==
    IF accepted /\ GetSelectedPath(sel, cur) # Empty
    THEN GetSelectedPath(sel, cur) ELSE fld

\* what dialog.exec() / get_selected_path hand to pick_remote_path
ResultOf(accepted, sel, cur) ==
    IF accepted THEN GetSelectedPath(sel, cur) ELSE NoPath

\* ------------------------------------------------------- RsyncGUI (the form)

\* The check boxes of the form.
CheckBoxes ==
    {"sourceIsRemote", "sourceUseSSHKey", "targetIsRemote", "targetUseSSHKey",
     "optArchive", "optVerbose", "optProgress", "optDryRun", "optDelete",
     "optIgnoreExisting", "optHumanReadable", "copyContents"}

\* The text fields of the form.
TextFields ==
    {"sourceUser", "sourceHost", "sourceRemotePath", "sourceLocalPath",
     "sourceSSHKeyPath", "targetUser", "targetHost", "targetRemotePath",
     "targetLocalPath", "targetSSHKeyPath"}

\* __init__ and reset_fields: the form as built, and as reset.
FormDefaults ==
    [sourceIsRemote |-> FALSE, sourceUseSSHKey |-> FALSE,
     targetIsRemote |-> FALSE, targetUseSSHKey |-> FALSE,
     optArchive |-> TRUE, optVerbose |-> TRUE, optProgress |-> TRUE,
     optDryRun |-> FALSE, optDelete |-> FALSE, optIgnoreExisting |-> FALSE,
     optHumanReadable |-> TRUE, copyContents |-> FALSE,
     sourceUser |-> Empty, sourceHost |-> Empty, sourceRemotePath |-> Empty,
     sourceLocalPath |-> Empty, sourceSSHKeyPath |-> Empty,
     targetUser |-> Empty, targetHost |-> Empty, targetRemotePath |-> Empty,
     targetLocalPath |-> Empty, targetSSHKeyPath |-> Empty]

\* connectLivePreview: the text fields whose textChanged signal is connected
\* to update_command_preview.
PreviewFields ==
    {"sourceUser", "sourceHost", "sourceRemotePath", "sourceLocalPath",
     "targetUser", "targetHost", "targetRemotePath", "targetLocalPath",
     "sourceSSHKeyPath", "targetSSHKeyPath"}

\* connectLivePreview: the check boxes whose stateChanged signal is connected
\* to update_command_preview.
PreviewToggles ==
    {"sourceIsRemote", "sourceUseSSHKey", "targetIsRemote", "targetUseSSHKey",
     "optArchive", "optVerbose", "optProgress", "optDryRun", "optDelete",
     "optHumanReadable", "copyContents"}

\* " ".join(parts)
RECURSIVE JoinParts(_)
JoinParts(parts) ==
    IF Len(parts) = 0 THEN Empty
    ELSE IF Len(parts) = 1 THEN parts[1]
    ELSE parts[1] \o <<" ">> \o JoinParts(Tail(parts))

\* build_command: the option flags, in the order they are appended.  A
\* literal piece of the command is kept as one element of the string.
OptionParts(f) ==
    (IF f.optArchive THEN << <<"-a">> >> ELSE <<>>)
    \o (IF f.optVerbose THEN << <<"-v">> >> ELSE <<>>)
    \o (IF f.optProgress THEN << <<"--progress">> >> ELSE <<>>)
    \o (IF f.optDryRun THEN << <<"--dry-run">> >> ELSE <<>>)
    \o (IF f.optDelete THEN << <<"--delete">> >> ELSE <<>>)
    \o (IF f.optIgnoreExisting THEN << <<"--ignore-existing">> >> ELSE <<>>)
    \o (IF f.optHumanReadable THEN << <<"-h">> >> ELSE <<>>)

\* build_command: keyPath (None when neither side uses a key)
KeyPathOf(f) ==
    IF f.sourceIsRemote /\ f.sourceUseSSHKey THEN PyStrip(f.sourceSSHKeyPath)
    ELSE IF f.targetIsRemote /\ f.targetUseSSHKey
         THEN PyStrip(f.targetSSHKeyPath)
         ELSE NoPath

\* build_command: the -e part, present when keyPath is truthy
SshParts(f) ==
    IF KeyPathOf(f) # NoPath /\ KeyPathOf(f) # Empty
    THEN << <<"-e '", "ssh -i \"">> \o KeyPathOf(f)
            \o <<"\" -o IdentitiesOnly=yes", "'">> >>
    ELSE <<>>

\* build_command: src
SrcOf(f) ==
    LET src == IF f.sourceIsRemote
               THEN f.sourceUser \o <<"@">> \o f.sourceHost \o <<":">>
                    \o f.sourceRemotePath
               ELSE PyStrip(f.sourceLocalPath)
    IN  IF f.copyContents /\ src # Empty /\ ~EndsWithSlash(src)
        THEN src \o Slash ELSE src

\* build_command: dst
DstOf(f) ==
    IF f.targetIsRemote
    THEN f.targetUser \o <<"@">> \o f.targetHost \o <<":">>
         \o f.targetRemotePath
    ELSE PyStrip(f.targetLocalPath)

\* f'"{s}"'
Quoted(s) == <<"\"">> \o s \o <<"\"">>

\* build_command, which run_rsync executes
BuildCommand(f) ==
    JoinParts(<< <<"rsync">> >> \o OptionParts(f) \o SshParts(f)
              \o << Quoted(SrcOf(f)), Quoted(DstOf(f)) >>)

\* ------------------------------------------------------------------ inputs

\* Texts the user types into the path field: nothing, a directory with a
\* trailing separator and a trailing blank, a relative path.
TypedTexts == {Empty, <<"/", "h", "/", " ">>, <<"d">>}

\* Texts of the host, user and key fields: nothing, a blank, a value.
CredTexts == {Empty, <<" ">>, <<"x">>}

\* Texts the user types into a field of the form: nothing, a directory with
\* a trailing separator, a name between blanks.
FormTexts == {Empty, <<"p", "/">>, <<" ", "q", " ">>}

\* ------------------------------------------------------------------- state

Init ==
    /\ field = Empty
    /\ dlg = "None"
    /\ currentPath = NoPath
    /\ listing = <<>>
    /\ crumbs = <<>>
    /\ selectedPath = NoPath
    /\ client = "none"
    /\ sftp = "none"
    /\ cwd = NoPath
    /\ uncaught = FALSE
    /\ warned = FALSE
    /\ opened = 0
    /\ liveOld = 0
    /\ lastAct = "Init"
    /\ arg = NoPath
    /\ fromPath = NoPath
    /\ fromListing = <<>>
    /\ attempted = NoPath
    /\ listOk = "none"
    /\ lastOkPath = NoPath
    /\ startPath = NoPath
    /\ homeQueries = 0
    /\ firstList = NoPath
    /\ tildeListed = FALSE
    /\ result = NoPath
    /\ fieldBefore = Empty
    /\ credsGiven = FALSE
    /\ form = FormDefaults
    /\ commandPreview = BuildCommand(FormDefaults)
    /\ edits = 0

\* The main window takes input: no modal dialog is up and the process lives.
FormIdle == dlg # "Browsing" /\ ~uncaught

\* The dialog takes input.
DialogUp == dlg = "Browsing" /\ ~uncaught

\* pick_remote_path read a host, a user and a key that each hold a character
\* other than a blank.
AllGiven(host, user, key) ==
    \A c \in {host, user, key} : \E i \in 1..Len(c) : c[i] # " "

\* The user edits the path field.
TypeField(t) ==
    /\ FormIdle
    /\ credsGiven' = FALSE
    /\ UNCHANGED formVars
    /\ field' = t
    /\ warned' = FALSE
    /\ lastAct' = "TypeField"
    /\ arg' = t
    /\ UNCHANGED <<dlg, currentPath, listing, crumbs, selectedPath, client,
                   sftp, cwd, uncaught, opened, liveOld, fromPath, fromListing,
                   attempted, listOk, lastOkPath, startPath, homeQueries,
                   firstList, tildeListed, result, fieldBefore>>

\* pick_remote_path, a credential missing: the warning box, then return.
PickMissing(host, user, key) ==
    /\ FormIdle
    /\ credsGiven' = AllGiven(host, user, key)
    /\ UNCHANGED formVars
    /\ MissingInfo(host, user, key)
    /\ warned' = TRUE
    /\ lastAct' = "PickMissing"
    /\ arg' = NoPath
    /\ UNCHANGED <<field, dlg, currentPath, listing, crumbs, selectedPath,
                   client, sftp, cwd, uncaught, opened, liveOld, fromPath,
                   fromListing, attempted, listOk, lastOkPath, startPath,
                   homeQueries, firstList, tildeListed, result, fieldBefore>>

\* Transports of the dialog objects built so far that are still connected
\* when the next one is built.
LeftOpen == liveOld + (IF client = "open" THEN 1 ELSE 0)

\* pick_remote_path up to dialog.exec(): RemoteBrowserDialog.__init__ with
\* connect_ssh and the first load_directory, all remote calls succeeding in
\* connect_ssh.
PickOpen(host, user, key, answer, io) ==
    /\ FormIdle
    /\ credsGiven' = AllGiven(host, user, key)
    /\ UNCHANGED formVars
    /\ ~MissingInfo(host, user, key)
    /\ opened < MaxSessions
    /\ LET start == StartPathOf(field)
           cur == ResolveStart(start, answer)
           r == LoadDirectory(cur, NoPath, io)
       IN  /\ startPath' = start
           /\ homeQueries' = HomeLookups(start)
           /\ currentPath' = cur
           /\ listing' = r.listing
           /\ crumbs' = UpdateBreadcrumbs(cur)
           /\ cwd' = r.cwd
           /\ attempted' = cur
           /\ listOk' = IF r.ok THEN "ok" ELSE "fail"
           /\ lastOkPath' = IF r.ok THEN cur ELSE NoPath
           /\ firstList' = cur
           /\ tildeListed' = (cur = Tilde)
    /\ dlg' = "Browsing"
    /\ selectedPath' = NoPath
    /\ client' = "open"
    /\ sftp' = "open"
    /\ liveOld' = LeftOpen
    /\ opened' = opened + 1
    /\ warned' = FALSE
    /\ lastAct' = "PickOpen"
    /\ arg' = NoPath
    /\ fromPath' = NoPath
    /\ fromListing' = <<>>
    /\ result' = NoPath
    /\ fieldBefore' = field
    /\ UNCHANGED <<field, uncaught>>

\* pick_remote_path, connect_ssh raising: connect, exec_command or open_sftp
\* raises inside __init__; nothing catches it, the dialog is never shown and
\* the exception leaves pick_remote_path.
PickOpenFail(host, user, key, conn) ==
    /\ FormIdle
    /\ credsGiven' = AllGiven(host, user, key)
    /\ UNCHANGED formVars
    /\ ~MissingInfo(host, user, key)
    /\ opened < MaxSessions
    /\ conn # "ok"
    /\ conn = "execFail" => StartPathOf(field) = Tilde
    /\ startPath' = StartPathOf(field)
    /\ currentPath' = StartPathOf(field)
    /\ homeQueries' = IF conn = "execFail" THEN 1 ELSE 0
    /\ client' = IF conn = "connectFail" THEN "unconnected" ELSE "open"
    /\ sftp' = "none"
    /\ liveOld' = LeftOpen
    /\ opened' = opened + 1
    /\ uncaught' = TRUE
    /\ dlg' = "None"
    /\ listing' = <<>>
    /\ crumbs' = <<>>
    /\ selectedPath' = NoPath
    /\ cwd' = NoPath
    /\ warned' = FALSE
    /\ lastAct' = "PickOpenFail"
    /\ arg' = NoPath
    /\ fromPath' = NoPath
    /\ fromListing' = <<>>
    /\ attempted' = NoPath
    /\ listOk' = "none"
    /\ lastOkPath' = NoPath
    /\ firstList' = NoPath
    /\ tildeListed' = FALSE
    /\ result' = NoPath
    /\ fieldBefore' = field
    /\ UNCHANGED field

\* The part of a navigation handler that is load_directory on `path`.
Navigate(path, io) ==
    LET r == LoadDirectory(path, cwd, io)
    IN  /\ currentPath' = path
        /\ listing' = r.listing
        /\ crumbs' = UpdateBreadcrumbs(path)
        /\ cwd' = r.cwd
        /\ attempted' = path
        /\ listOk' = IF r.ok THEN "ok" ELSE "fail"
        /\ lastOkPath' = IF r.ok THEN path ELSE lastOkPath
        /\ tildeListed' = (tildeListed \/ path = Tilde)
        /\ UNCHANGED <<field, dlg, selectedPath, client, sftp, uncaught, warned,
                       opened, liveOld, startPath, homeQueries, firstList,
                       result, fieldBefore>>

\* The dialog ends by accept() or reject(): exec() returns and
\* pick_remote_path runs to its end.
Finish(accepted, sel, handle) ==
    /\ dlg' = IF accepted THEN "Selected" ELSE "Cancelled"
    /\ selectedPath' = sel
    /\ client' = IF handle = "closed" THEN CloseHandle(client)
                 ELSE DoneHandle(client)
    /\ sftp' = IF handle = "closed" THEN CloseHandle(sftp) ELSE DoneHandle(sftp)
    /\ result' = ResultOf(accepted, sel, currentPath)
    /\ field' = FieldAfterExec(accepted, sel, currentPath, field)
    /\ UNCHANGED <<currentPath, crumbs, cwd, uncaught, warned, opened, liveOld,
                   attempted, listOk, lastOkPath, startPath, homeQueries,
                   firstList, tildeListed, fieldBefore>>

\* enter_directory(item): a double-click on an item of the list.
EnterDirectory(i, sio, lio) ==
    /\ DialogUp
    /\ credsGiven' = FALSE
    /\ UNCHANGED formVars
    /\ i \in 1..Len(listing)
    /\ LET name == listing[i]
           full == OsPathJoin(currentPath, name)
           kind == StatKind(full, cwd, sio)
       IN  /\ arg' = name
           /\ fromPath' = currentPath
           /\ fromListing' = listing
           /\ \/ /\ kind = "dir"
                 /\ lastAct' = "EnterDir"
                 /\ Navigate(full, lio)
              \/ /\ kind = "file"
                 /\ lio = "ok"
                 /\ lastAct' = "EnterFile"
                 /\ listing' = listing
                 /\ Finish(TRUE, full, "done")
              \/ /\ kind = "error"
                 /\ lio = "ok"
                 /\ lastAct' = "EnterError"
                 /\ listing' = Append(listing, ErrItem)
                 /\ Finish(TRUE, full, "done")

\* go_up_directory: the Up button.
GoUpDirectory(lio) ==
    /\ DialogUp
    /\ credsGiven' = FALSE
    /\ UNCHANGED formVars
    /\ arg' = NoPath
    /\ fromPath' = currentPath
    /\ fromListing' = listing
    /\ \/ /\ GoUpMoves(currentPath)
          /\ lastAct' = "GoUp"
          /\ Navigate(GoUpParent(currentPath), lio)
       \/ /\ ~GoUpMoves(currentPath)
          /\ lio = "ok"
          /\ lastAct' = "GoUpStay"
          /\ UNCHANGED <<field, dlg, currentPath, listing, crumbs, selectedPath,
                         client, sftp, cwd, uncaught, warned, opened, liveOld,
                         attempted, listOk, lastOkPath, startPath, homeQueries,
                         firstList, tildeListed, result, fieldBefore>>

\* jump_to_path(p): a click on breadcrumb button k.
JumpToPath(k, lio) ==
    /\ DialogUp
    /\ credsGiven' = FALSE
    /\ UNCHANGED formVars
    /\ k \in 1..Len(crumbs)
    /\ arg' = crumbs[k]
    /\ fromPath' = currentPath
    /\ fromListing' = listing
    /\ lastAct' = "JumpTo"
    /\ Navigate(crumbs[k], lio)

\* The "Use This Path" button: QDialog.accept.
Confirm ==
    /\ DialogUp
    /\ credsGiven' = FALSE
    /\ UNCHANGED formVars
    /\ arg' = NoPath
    /\ fromPath' = currentPath
    /\ fromListing' = listing
    /\ lastAct' = "Confirm"
    /\ listing' = listing
    /\ Finish(TRUE, selectedPath, "done")

\* The Escape key: QDialog.reject.
Cancel ==
    /\ DialogUp
    /\ credsGiven' = FALSE
    /\ UNCHANGED formVars
    /\ arg' = NoPath
    /\ fromPath' = currentPath
    /\ fromListing' = listing
    /\ lastAct' = "Cancel"
    /\ listing' = listing
    /\ Finish(FALSE, selectedPath, "done")

\* The window's close button: closeEvent closes both handles, then
\* QDialog.closeEvent rejects the dialog.
CloseWindow ==
    /\ DialogUp
    /\ credsGiven' = FALSE
    /\ UNCHANGED formVars
    /\ arg' = NoPath
    /\ fromPath' = currentPath
    /\ fromListing' = listing
    /\ lastAct' = "CloseWindow"
    /\ listing' = listing
    /\ Finish(FALSE, selectedPath, "closed")

Next ==
    \/ \E t \in TypedTexts : TypeField(t)
    \/ \E h, u, k \in CredTexts : PickMissing(h, u, k)
    \/ \E h, u, k \in CredTexts, a \in HomeAnswers, io \in ListIO :
           PickOpen(h, u, k, a, io)
    \/ \E h, u, k \in CredTexts, c \in ConnIO : PickOpenFail(h, u, k, c)
    \/ \E i \in 1..Len(listing), sio \in StatIO, lio \in ListIO :
           EnterDirectory(i, sio, lio)
    \/ \E lio \in ListIO : GoUpDirectory(lio)
    \/ \E k \in 1..Len(crumbs), lio \in ListIO : JumpToPath(k, lio)
    \/ Confirm
    \/ Cancel
    \/ CloseWindow

Spec == Init /\ [][Next]_vars

\* ------------------------------------------------------- editing the form

\* The user clicks a check box: stateChanged runs the slots connected to it.
ToggleBox(b) ==
    /\ FormIdle
    /\ edits < MaxEdits
    /\ form' = [form EXCEPT ![b] = ~@]
    /\ commandPreview' = IF b \in PreviewToggles
                         THEN BuildCommand(form') ELSE commandPreview
    /\ edits' = edits + 1
    /\ UNCHANGED browserVars

\* The user changes a text field: textChanged runs the slots connected to it.
EditText(f, t) ==
    /\ FormIdle
    /\ edits < MaxEdits
    /\ t # form[f]
    /\ form' = [form EXCEPT ![f] = t]
    /\ commandPreview' = IF f \in PreviewFields
                         THEN BuildCommand(form') ELSE commandPreview
    /\ edits' = edits + 1
    /\ UNCHANGED browserVars

\* reset_fields: every widget back to its default, then
\* update_command_preview.
ResetFields ==
    /\ FormIdle
    /\ edits < MaxEdits
    /\ form' = FormDefaults
    /\ commandPreview' = BuildCommand(form')
    /\ edits' = edits + 1
    /\ UNCHANGED browserVars

FormNext ==
    \/ \E b \in CheckBoxes : ToggleBox(b)
    \/ \E f \in TextFields, t \in FormTexts : EditText(f, t)
    \/ ResetFields

FormSpec == Init /\ [][FormNext]_vars

\* --------------------------------------------------------------- properties

\* Handlers that ran load_directory.
Listed == lastAct \in {"PickOpen", "EnterDir", "GoUp", "JumpTo"}

\* The non-empty pieces of a path, in order.
RECURSIVE Segments(_)
Segments(p) ==
    IF p = Empty THEN <<>>
    ELSE IF p[1] = "/" THEN Segments(Tail(p))
    ELSE LET n == IF \E i \in 1..Len(p) : p[i] = "/"
                  THEN (CHOOSE k \in 1..Len(p) :
                            p[k] = "/" /\ \A j \in 1..(k - 1) : p[j] # "/") - 1
                  ELSE Len(p)
         IN  <<SubSeq(p, 1, n)>> \o Segments(SubSeq(p, n + 1, Len(p)))

\* "/" + the first n segments joined by "/" ("/" alone for n = 0).
RECURSIVE Rooted(_, _)
Rooted(segs, n) ==
    IF n = 0 THEN Slash
    ELSE IF n = 1 THEN Slash \o segs[1]
    ELSE Rooted(segs, n - 1) \o Slash \o segs[n]

\* An absolute path written without a trailing or doubled separator.
Canonical(p) == p = Rooted(Segments(p), Len(Segments(p)))

\* The absolute prefixes of a path, one per segment, root to leaf.
AbsPrefixes(p) == [i \in 1..Len(Segments(p)) |-> Rooted(Segments(p), i)]

\* The absolute prefixes of "/" followed by the segments of a path; "/" alone
\* for a path without segments.
CrumbTargets(p) == IF Segments(p) = <<>> THEN <<Slash>> ELSE AbsPrefixes(p)

\* C1: once the session is Selected or Cancelled, however it ended, both the
\* transport handle and the file-channel handle are closed.
C1_HandlesReleased ==
    dlg \in {"Selected", "Cancelled"} => client = "closed" /\ sftp = "closed"

\* C2: a connect or authentication failure during open does not leave the
\* caller as an uncaught error; the dialog is up in a Failed state showing
\* one error in the listing area.
C2_ConnectFailureContained ==
    lastAct = "PickOpenFail" =>
        ~uncaught /\ dlg = "Browsing" /\ Len(listing) = 1

\* currentPath and name put together with one separator between them.
OneSeparator(path, name) ==
    IF path = Empty \/ path[Len(path)] = "/" THEN path \o name
    ELSE path \o Slash \o name

\* C3 as stated: enter on a directory entry sets no selectedPath, stays
\* Browsing and moves currentPath to the entry; enter on a non-directory entry
\* sets selectedPath to currentPath + "/" + name, for every currentPath, and
\* ends the session as Selected.
C3_EnterAsStated ==
    /\ lastAct = "EnterDir" =>
           /\ selectedPath = NoPath
           /\ dlg = "Browsing"
           /\ currentPath = OneSeparator(fromPath, arg)
    /\ lastAct = "EnterFile" =>
           selectedPath = fromPath \o Slash \o arg /\ dlg = "Selected"

\* C3 (amended): enter on a directory entry sets no selectedPath, stays
\* Browsing and moves currentPath to the entry; enter on a non-directory entry
\* sets selectedPath to currentPath and name with exactly one separator between
\* them (currentPath + name when currentPath ends with "/", as the root does,
\* currentPath + "/" + name otherwise) and ends the session as Selected with
\* that path as the result.
C3_Enter ==
    /\ lastAct = "EnterDir" =>
           /\ selectedPath = NoPath
           /\ dlg = "Browsing"
           /\ currentPath = OneSeparator(fromPath, arg)
           /\ attempted = currentPath
    /\ lastAct = "EnterFile" =>
           /\ selectedPath = OneSeparator(fromPath, arg)
           /\ dlg = "Selected"
           /\ result = selectedPath
           /\ currentPath = fromPath

\* C3 witness: a file of the root directory was entered.
C3_Witness ==
    lastAct = "EnterFile" /\ fromPath = Slash /\ selectedPath = <<"/", "b">>

\* No separator is left once the trailing separators are stripped: the root,
\* the empty path, a single relative segment.
NoParent(p) ==
    LET n == IF \E i \in 1..Len(p) : p[i] # "/"
             THEN CHOOSE k \in 1..Len(p) :
                      p[k] # "/" /\ \A j \in (k + 1)..Len(p) : p[j] = "/"
             ELSE 0
    IN  \A i \in 1..n : p[i] # "/"

\* The path a listing handler issues load_directory with.
TargetOf(act, from, a) ==
    CASE act = "EnterDir" -> OneSeparator(from, a)
      [] act = "JumpTo" -> a
      [] act = "GoUp" -> Rooted(Segments(from), Len(Segments(from)) - 1)
      [] OTHER -> attempted

C5_GoUpAsStated ==
    /\ lastAct = "GoUpStay" /\ StartsWithSlash(fromPath) =>
           GoUpParent(fromPath) = fromPath
    /\ lastAct = "GoUp" /\ StartsWithSlash(fromPath) =>
           GoUpParent(fromPath) # fromPath /\ currentPath = GoUpParent(fromPath)

\* One goUp on a path.
UpStep(p) == IF GoUpMoves(p) THEN GoUpParent(p) ELSE p

\* n times goUp on a path.
RECURSIVE UpTimes(_, _)
UpTimes(p, n) == IF n = 0 THEN p ELSE UpTimes(UpStep(p), n - 1)

\* C5 (amended): goUp leaves currentPath and the listing unchanged exactly
\* when currentPath, trailing separators stripped, holds no separator (the
\* root "/", the empty path, a single relative segment: the computed parent is
\* empty, not equal to currentPath); otherwise it sets currentPath to the
\* parent and reloads the listing. Repeated goUp from an absolute path reaches
\* the root and stays there; from a relative path it stops at the first
\* segment.
C5_GoUp ==
    /\ lastAct = "GoUpStay" =>
           /\ NoParent(fromPath)
           /\ currentPath = fromPath
           /\ listing = fromListing
    /\ lastAct = "GoUp" =>
           /\ ~NoParent(fromPath)
           /\ StartsWithSlash(fromPath) =>
                  currentPath = Rooted(Segments(fromPath), Len(Segments(fromPath)) - 1)
           /\ attempted = currentPath
           /\ listOk # "none"
    /\ dlg = "Browsing" /\ StartsWithSlash(currentPath) =>
           /\ UpTimes(currentPath, Len(currentPath)) = Slash
           /\ UpStep(Slash) = Slash
    /\ dlg = "Browsing" /\ ~StartsWithSlash(currentPath) =>
           /\ UpTimes(currentPath, Len(currentPath)) =
                  IF Segments(currentPath) = <<>> THEN currentPath
                  ELSE Segments(currentPath)[1]
           /\ UpStep(UpTimes(currentPath, Len(currentPath))) =
                  UpTimes(currentPath, Len(currentPath))

\* C5 witness: goUp at the root did nothing.
C5_Witness == lastAct = "GoUpStay" /\ fromPath = Slash /\ currentPath = Slash

\* C6 as stated, for a session on absolute paths in which some listing
\* succeeded: confirm() returns currentPath, and that is the path of the last
\* load_directory that succeeded.
C6_ConfirmAsStated ==
    lastAct = "Confirm" /\ lastOkPath # NoPath /\ StartsWithSlash(currentPath) =>
        result = currentPath /\ result = lastOkPath

\* C6 (amended): confirm() returns currentPath, which is the path the last
\* load_directory was issued with, whether that listing succeeded or failed.
C6_Confirm ==
    lastAct = "Confirm" =>
        /\ dlg = "Selected"
        /\ selectedPath = NoPath
        /\ result = currentPath
        /\ result = attempted
        /\ listOk = "ok" => result = lastOkPath

\* C6 witness: confirm() after a failed listing returned the path whose
\* listing failed, not the one listed before it.
C6_Witness ==
    /\ lastAct = "Confirm"
    /\ listOk = "fail"
    /\ lastOkPath # NoPath
    /\ result # lastOkPath
    /\ result = currentPath

\* C7: a cancelled browse yields an absent result and leaves the path field
\* holding what it held when the browser was opened.
C7_CancelKeepsField ==
    lastAct \in {"Cancel", "CloseWindow"} =>
        result = NoPath /\ field = fieldBefore /\ dlg = "Cancelled"

\* C7 witness: cancel after navigating away from the first directory.
C7_Witness ==
    /\ lastAct = "Cancel"
    /\ currentPath # firstList
    /\ currentPath # fieldBefore
    /\ lastOkPath = currentPath

\* C8 as stated, on absolute paths below the root: after every load_directory
\* the breadcrumb targets are the absolute prefixes of currentPath, one per
\* segment, the last one equal to currentPath; jumpTo sets currentPath to the
\* target and reloads.
C8_BreadcrumbsAsStated ==
    /\ dlg = "Browsing" /\ StartsWithSlash(currentPath)
          /\ Segments(currentPath) # <<>> =>
           /\ crumbs = AbsPrefixes(currentPath)
           /\ crumbs[Len(crumbs)] = currentPath
    /\ lastAct = "JumpTo" => currentPath = arg

\* C8 (amended): after every load_directory the breadcrumb targets are the
\* absolute prefixes, one per segment, root to leaf, of "/" followed by the
\* segments of currentPath; a currentPath without segments ("/" or empty) has
\* the single target "/". The last target equals currentPath when currentPath
\* is absolute and written without a trailing separator. jumpTo on a
\* breadcrumb sets currentPath to its target and reloads the listing.
C8_Breadcrumbs ==
    /\ dlg = "Browsing" =>
           /\ crumbs = CrumbTargets(currentPath)
           /\ Canonical(currentPath) => crumbs[Len(crumbs)] = currentPath
    /\ lastAct = "JumpTo" =>
           /\ currentPath = arg
           /\ attempted = arg
           /\ listOk # "none"
           /\ \E k \in 1..Len(CrumbTargets(fromPath)) :
                  arg = CrumbTargets(fromPath)[k]

\* C8 witness: at /h/d the breadcrumb for /h was clicked.
C8_Witness ==
    /\ lastAct = "JumpTo"
    /\ fromPath = <<"/", "h", "/", "d">>
    /\ arg = <<"/", "h">>
    /\ currentPath = <<"/", "h">>
    /\ crumbs = <<<<"/", "h">>>>

\* The names the server holds directly under a directory.
NamesUnder(dir) ==
    {SubSeq(q, Len(q) - Len(Segments(q)[Len(Segments(q))]) + 1, Len(q)) :
        q \in {x \in (ServerDirs \cup ServerFiles) \ {Slash} :
                  Rooted(Segments(x), Len(Segments(x)) - 1) = dir}}

\* C9: a load_directory that succeeds leaves as the listing exactly the names
\* the server holds directly under the path, each once, in ascending order.
C9_ListingExact ==
    Listed /\ listOk = "ok" /\ dlg = "Browsing" =>
        /\ {listing[i] : i \in 1..Len(listing)} = NamesUnder(cwd)
        /\ Len(listing) = Cardinality(NamesUnder(cwd))
        /\ \A i \in 1..(Len(listing) - 1) : StrLess(listing[i], listing[i + 1])
        /\ StartsWithSlash(currentPath) =>
               cwd = Rooted(Segments(currentPath), Len(Segments(currentPath)))

\* C9 witness: goUp from /h/d replaced the listing by that of /h.
C9_Witness ==
    /\ lastAct = "GoUp"
    /\ listOk = "ok"
    /\ fromListing = <<<<"g">>>>
    /\ listing = <<<<"d">>, <<"f">>>>

\* C10: with startPath "~" the home directory is queried exactly once, the
\* first load_directory targets the answer, and no load_directory of the
\* session runs with currentPath "~".
C10_HomeResolvedOnce ==
    startPath = Tilde /\ dlg # "None" =>
        /\ homeQueries = 1
        /\ firstList \in {PyStrip(a) : a \in HomeAnswers}
        /\ firstList # Tilde
        /\ ~tildeListed
        /\ currentPath # Tilde

\* C10 witness: a session started at "~" listed /h first and navigated on.
C10_Witness ==
    /\ startPath = Tilde
    /\ firstList = Home
    /\ homeQueries = 1
    /\ lastAct = "EnterDir"
    /\ currentPath = <<"/", "h", "/", "d">>

\* C11: when the metadata lookup of enter(name) fails, the candidate path
\* (currentPath joined with name) is committed all the same: selectedPath is
\* the candidate, the session ends as Selected and the caller receives the
\* candidate.
C11_StatFailureCommits ==
    lastAct = "EnterError" =>
        /\ selectedPath = OneSeparator(fromPath, arg)
        /\ dlg = "Selected"
        /\ result = selectedPath
        /\ field = selectedPath
        /\ listing = Append(fromListing, ErrItem)

\* C11 witness: stat raised on an entry the server had listed, and its path
\* was committed.
C11_Witness ==
    /\ lastAct = "EnterError"
    /\ fromPath = Home
    /\ arg = <<"d">>
    /\ result = <<"/", "h", "/", "d">>
    /\ dlg = "Selected"

\* C12: once open has completed, currentPath is an absolute path, whatever
\* the path field held and whatever the home-directory query answered.
C12_CurrentPathAbsolute ==
    dlg \in {"Browsing", "Selected", "Cancelled"} => StartsWithSlash(currentPath)

\* C14: at most one transport / file-channel pair is live at any moment: the
\* pair of an earlier browse is closed before the next browse creates its own.
C14_OneLivePair == ~uncaught => LeftOpen <= 1

\* C15: a session that ends as Selected through enter returns currentPath
\* joined with a name the server reported in the listing of currentPath; the
\* synthetic error entry of a failed listing cannot be committed.
C15_EnterCommitsListedName ==
    lastAct \in {"EnterFile", "EnterError"} /\ StartsWithSlash(fromPath) =>
        /\ arg # ErrItem
        /\ arg \in NamesUnder(Rooted(Segments(fromPath), Len(Segments(fromPath))))
        /\ selectedPath = OneSeparator(fromPath, arg)

\* C13: a remote browse requested with a host, a user or a key that is blank
\* only warns: it builds no dialog, opens no transport, makes no remote call
\* and leaves the path field alone; a dialog is built only by a request whose
\* host, user and key are all given.
C13_MissingCredentials ==
    [][/\ lastAct' = "PickMissing" =>
           /\ ~credsGiven' /\ warned'
           /\ UNCHANGED <<field, dlg, client, sftp, cwd, opened, liveOld,
                          homeQueries, listing, currentPath, uncaught>>
       /\ lastAct' \in {"PickOpen", "PickOpenFail"} => credsGiven'
       /\ opened' # opened =>
           credsGiven' /\ lastAct' \in {"PickOpen", "PickOpenFail"}]_vars

C13_Witness ==
    /\ lastAct = "PickMissing" /\ ~credsGiven /\ warned
    /\ opened = 1 /\ dlg = "Selected" /\ field = <<"/", "h", "/", "d">>

\* C16: the command shown in the preview is the command build_command makes
\* from the form as it stands, after any edits of the form.
C16_PreviewCurrent == commandPreview = BuildCommand(form)

====
